---- MODULE Spec2Model ----
(***************************************************************************)
(* Model of components/util/memory.rs: the memory profiler actor           *)
(* (MemoryProfiler), its mailbox (MemoryProfilerChan), the optional timer  *)
(* thread, the reporter registry and the Print cycle; and its measuring    *)
(* functions get_resident_segments, get_jemalloc_stat and                  *)
(* size_of_excluding_self.                                                 *)
(***************************************************************************)
EXTENDS Integers, Sequences, FiniteSets, TLC

\* ------------------------------------------------------------------ bounds
\* Number of messages handle holders send in one run.
MaxSends == 2
\* Number of Print messages the timer thread injects in one run.
MaxTimerPrints == 1
\* Number of lines of /proc/self/smaps one scan reads.
MaxLines == 4
\* Number of calls of get_jemalloc_stat in one run.
MaxStatCalls == 2
\* Number of elements of a measured Vec.
MaxElems == 2
\* Number of nodes of a measured DList.
MaxNodes == 2

\* ------------------------------------------------------------------ data
\* Reporter names used by the run; "system" is the fixed built-in name.
SystemName == "system"
Names == {SystemName, "a"}

\* A MemoryReport {name, size}.
MemoryReport(n, s) == [name |-> n, size |-> s]

\* Vec<MemoryReport> values a custom reporter may deliver.
ReportLists == { <<MemoryReport("x", 2097152), MemoryReport("y", 1048576)>> }

\* Vec<MemoryReport> values SystemMemoryReporter may deliver: one report per
\* query that returned a value, here vsize and resident.
SystemReportLists ==
    { <<MemoryReport("vsize", 4194304), MemoryReport("resident", 1048576)>> }

\* The four variants of MemoryProfilerMsg.  A message carries its position in
\* the channel's global enqueue order (id) and its sender (from); a
\* Register's boxed reporter is identified by the id of the message that
\* carries it, and sys tells whether it is the SystemMemoryReporter.
RegisterMsg(i, f, n, s) == [id |-> i, from |-> f, kind |-> "Register", name |-> n, sys |-> s]
UnregisterMsg(i, f, n)  == [id |-> i, from |-> f, kind |-> "Unregister", name |-> n, sys |-> FALSE]
PrintMsg(i, f)          == [id |-> i, from |-> f, kind |-> "Print", name |-> "", sys |-> FALSE]
ExitMsg(i, f)           == [id |-> i, from |-> f, kind |-> "Exit", name |-> "", sys |-> FALSE]

\* The boxed reporter a Register message carries.
ReporterOf(m) == [id |-> m.id, sys |-> m.sys]

\* HashMap::new()
EmptyMap == [n \in {} |-> 0]

\* HashMap::insert: the map after the insert and the value it displaced.
HashInsert(map, name, r) ==
    [map |-> [n \in (DOMAIN map) \cup {name} |-> IF n = name THEN r ELSE map[n]],
     old |-> IF name \in DOMAIN map THEN <<map[name]>> ELSE << >>]

\* Variant of HashRemove: the value is looked up but the entry stays.
HashRemoveKeeps(map, name) ==
    [map |-> map,
     old |-> IF name \in DOMAIN map THEN <<map[name]>> ELSE << >>]

\* HashMap::remove: the map after the removal and the value it removed.
HashRemove(map, name) ==
    [map |-> [n \in (DOMAIN map) \ {name} |-> map[n]],
     old |-> IF name \in DOMAIN map THEN <<map[name]>> ELSE << >>]

\* Variant of RegisterOk: a duplicate name is accepted, the insert overwrites.
RegisterOkOverwrite(old) == TRUE

\* handle_msg, Register arm: insert returned None => true, Some(_) => panic.
RegisterOk(old) == old = << >>

\* handle_msg, Unregister arm: remove returned Some(_) => true, None => panic.
UnregisterOk(old) == old # << >>

\* Variant of KeepRunning: the Exit arm returns true as well.
KeepRunningAlways(kind) == TRUE

\* handle_msg, Print arm returns true and Exit arm returns false.
KeepRunning(kind) == kind # "Exit"

\* Variant of Recv: the newest message is taken first.
RecvNewest(q) == [msg |-> q[Len(q)], rest |-> SubSeq(q, 1, Len(q) - 1)]

\* Receiver::recv on a non-empty channel: the oldest message and the rest.
Recv(q) == [msg |-> Head(q), rest |-> Tail(q)]

\* Variant of Values: the iteration misses one entry of a map with several.
ValuesButOne(map) ==
    IF Cardinality(DOMAIN map) > 1
    THEN (DOMAIN map) \ {CHOOSE n \in DOMAIN map : TRUE}
    ELSE DOMAIN map

\* self.reporters.values(): the entries one Print cycle iterates over.
Values(map) == DOMAIN map

\* What collect_reports can do with its one-shot reply channel: its boolean
\* result (ret), whether a Vec was sent on the channel (sent) and the Vec.
\* SystemMemoryReporter always sends its reports and returns true.  A
\* reporter of a holder may also never reply (hang): its collect_reports
\* never returns, or it returns true and keeps the sender of the channel
\* without ever sending, so that port.recv() never returns.
Outcomes(r) ==
    IF r.sys
    THEN { [ret |-> TRUE, sent |-> TRUE, reports |-> l, hang |-> "no"] :
              l \in SystemReportLists }
    ELSE { [ret |-> b, sent |-> TRUE, reports |-> l, hang |-> "no"] :
              b \in BOOLEAN, l \in ReportLists }
         \cup { [ret |-> b, sent |-> FALSE, reports |-> << >>, hang |-> "no"] :
                   b \in BOOLEAN }
         \cup { [ret |-> FALSE, sent |-> FALSE, reports |-> << >>,
                  hang |-> "collect_reports"],
                [ret |-> TRUE, sent |-> FALSE, reports |-> << >>,
                  hang |-> "recv"] }

\* Variant of Blocked: the wait for a reporter is given up and the cycle
\* goes on.
BlockedTimesOut(o) == "printing"

\* Where the actor thread stays when a reporter never replies: in the call
\* reporter.collect_reports(chan) or in port.recv().
Blocked(o) == IF o.hang = "recv" THEN "blocked_recv" ELSE "blocked_collect"

\* Variant of Printed: the result of collect_reports is ignored.
PrintedIfSent(o) == IF o.sent THEN o.reports ELSE << >>

\* handle_print_msg, loop body: the reports that are printed for one reporter:
\* collect_reports returned true and port.recv() returned Ok(reports).
Printed(o) == IF o.ret /\ o.sent THEN o.reports ELSE << >>

\* println!("{:12}: {}", "_size (MiB)_", "_category_")
HeaderLine(c) == [kind |-> "header", cycle |-> c, rep |-> 0, name |-> "_category_", size |-> 0]
\* println!("{:12.2}: {}", size / mebi, name), for each report in order.
ReportLines(c, r, reports) ==
    [i \in 1..Len(reports) |->
        [kind |-> "report", cycle |-> c, rep |-> r.id,
         name |-> reports[i].name, size |-> reports[i].size]]
\* println!("")
BlankLine(c) == [kind |-> "blank", cycle |-> c, rep |-> 0, name |-> "", size |-> 0]
\* Variant of Trailer: no blank line after a loop over an empty registry.
TrailerIfAny(c, map) == IF DOMAIN map = {} THEN << >> ELSE << BlankLine(c) >>

\* The lines handle_print_msg emits after the loop over the reporters.
Trailer(c, map) == << BlankLine(c) >>

\* ------------------------------------------------------------------ state
VARIABLES
    period,         \* create's argument: "none" or "some"
    createPc,       \* position of the thread running create
    timer,          \* timer thread: "absent", "sleeping" or "done"
    timerSent,      \* number of Print messages the timer has sent
    actor,          \* actor thread: "unspawned", "recv", "printing", "exiting", "terminated",
                    \* or "blocked_collect", "blocked_recv" (waiting for a reporter)
    panicked,       \* the actor thread panicked
    mailbox,        \* the channel of MemoryProfilerMsg
    nsent,          \* number of messages enqueued so far
    sends,          \* number of sends by handle holders
    handles,        \* some clone of create's MemoryProfilerChan is alive
    senderPanicked, \* a handle holder panicked in MemoryProfilerChan::send
    reporters,      \* MemoryProfiler.reporters
    cycle,          \* number of Print cycles begun
    toVisit,        \* names the running Print cycle has not visited yet
    handled,        \* history: the messages handle_msg was called with
    calls,          \* history: the collect_reports calls made
    out             \* history: the lines printed

actorVars == <<period, createPc, timer, timerSent, actor, panicked, mailbox,
               nsent, sends, handles, senderPanicked, reporters, cycle, toVisit,
               handled, calls, out>>

\* get_resident_segments
VARIABLES
    smPc,           \* "idle", "scan" (in the loop over the lines) or "done"
    smOpened,       \* File::open("/proc/self/smaps") succeeded
    nlines,         \* number of lines read so far
    line,           \* history: the line read last
    lastHeader,     \* history: the name built from the header line read last
    looking_for,    \* "Segment" or "Rss"
    curr_seg_name,  \* the name of the pending segment
    seg_map,        \* name -> resident size
    recorded,       \* history: the segments recorded, [name, rss] each
    segs            \* the Vec<(String, u64)> returned

smapsVars == <<smPc, smOpened, nlines, line, lastHeader, looking_for,
               curr_seg_name, seg_map, recorded, segs>>

\* get_jemalloc_stat and the allocator's statistics
VARIABLES
    jePc,           \* "idle", "epoch", "read" or "done"
    value_name,     \* the statistic asked for
    liveStats,      \* the allocator's statistics now
    cachedStats,    \* the statistics as of the last successful "epoch" call
    cachedIn,       \* history: the invocation whose "epoch" call refreshed them
    invocations,    \* number of invocations started
    rvEpoch,        \* rv of the "epoch" call of this invocation
    rvValue,        \* rv of the statistic read of this invocation
    ctlLog,         \* history: the names passed to je_mallctl in this invocation
    jeResult        \* the Option<u64> returned

jeVars == <<jePc, value_name, liveStats, cachedStats, cachedIn, invocations,
            rvEpoch, rvValue, ctlLog, jeResult>>

\* size_of_excluding_self and the allocator's heap
VARIABLES
    szPc,           \* "idle", "vec_buffer", "vec_fold", "list_begin", "list_loop" or "done"
    measured,       \* "none", "Vec" or "DList"
    usable,         \* je_malloc_usable_size of every heap block
    vec,            \* the Vec<String> measured: buffer pointer and elements
    list_head,      \* DList2.list_head of the list measured
    nodes,          \* its nodes, by block: next link and value
    curr,           \* the link the loop is at
    elem_i,         \* the element the fold is at
    size,           \* the buffer's size (Vec), the running sum (DList2)
    fold_n,         \* the fold's accumulator n
    szResult,       \* the usize returned
    queried,        \* history: the pointers passed to je_malloc_usable_size
    visited         \* history: the nodes the loop visited

sizeVars == <<szPc, measured, usable, vec, list_head, nodes, curr, elem_i, size,
              fold_n, szResult, queried, visited>>

fnVars == <<smapsVars, jeVars, sizeVars>>

vars == <<actorVars, fnVars>>

\* The actor thread waits for a reporter that never replies.
Stalled == actor \in {"blocked_collect", "blocked_recv"}

\* The Receiver is dropped when the actor thread ends.
PortClosed == actor = "terminated"

\* Variant of HandleReturned: the handle is usable before the Register of the
\* system reporter is sent.
HandleReturnedEarly(pc) == pc \in {"register", "returned"}

\* create returned its handle to the caller.
HandleReturned(pc) == pc = "returned"

\* ------------------------------------------------------------------ create
\* No line of /proc/self/smaps has been read.
NoLine == [kind |-> "none", perms |-> "", path |-> "", kb |-> 0]

\* get_resident_segments is not running.
SmapsIdle ==
    /\ smPc = "idle"
    /\ smOpened = TRUE
    /\ nlines = 0
    /\ line = NoLine
    /\ lastHeader = ""
    /\ looking_for = "Segment"
    /\ curr_seg_name = ""
    /\ seg_map = EmptyMap
    /\ recorded = << >>
    /\ segs = << >>

\* Statistics read by SystemMemoryReporter, and the values they take.
StatNames == {"stats.allocated", "stats.active", "stats.mapped"}
StatValues == {4096, 8192}

\* je_mallctl has not been called in this invocation.
NotCalled == -1

\* Option<u64>
None == [some |-> FALSE, value |-> 0]
Some(v) == [some |-> TRUE, value |-> v]

\* get_jemalloc_stat is not running.
JeIdle ==
    /\ jePc = "idle"
    /\ value_name = "stats.allocated"
    /\ liveStats = [s \in StatNames |-> 4096]
    /\ cachedStats = [s \in StatNames |-> 4096]
    /\ cachedIn = 0
    /\ invocations = 0
    /\ rvEpoch = NotCalled
    /\ rvValue = NotCalled
    /\ ctlLog = << >>
    /\ jeResult = None

\* ::std::rt::heap::EMPTY, the pointer of a buffer that was never allocated.
EMPTY == 1
\* The None of a Link<T> = Option<Box<Node<T>>>.
NoLink == 0
\* The addresses of heap blocks, and the usable sizes the allocator gives.
Blocks == 2..5
UsableSizes == {16, 48}

\* The function over no block.
NoNodes == [b \in {} |-> b]

\* size_of_excluding_self is not running.
SizeIdle ==
    /\ szPc = "idle"
    /\ measured = "none"
    /\ usable = [b \in Blocks |-> 16]
    /\ vec = [ptr |-> EMPTY, elems |-> << >>]
    /\ list_head = NoLink
    /\ nodes = NoNodes
    /\ curr = NoLink
    /\ elem_i = 0
    /\ size = 0
    /\ fold_n = 0
    /\ szResult = 0
    /\ queried = << >>
    /\ visited = << >>

\* The measuring functions are not running.
FnIdle == SmapsIdle /\ JeIdle /\ SizeIdle

\* The state of create after channel().
ActorInit ==
    /\ period \in {"none", "some"}
    /\ createPc = "timer"
    /\ timer = "absent"
    /\ timerSent = 0
    /\ actor = "unspawned"
    /\ panicked = FALSE
    /\ mailbox = << >>
    /\ nsent = 0
    /\ sends = 0
    /\ handles = TRUE
    /\ senderPanicked = FALSE
    /\ reporters = EmptyMap
    /\ cycle = 0
    /\ toVisit = {}
    /\ handled = << >>
    /\ calls = << >>
    /\ out = << >>

Init == ActorInit /\ FnIdle

\* if let Some(period) = period { chan.clone(); spawn_named(timer) }
CreateSpawnTimer ==
    /\ createPc = "timer"
    /\ createPc' = "actor"
    /\ timer' = IF period = "some" THEN "sleeping" ELSE "absent"
    /\ UNCHANGED <<period, timerSent, actor, panicked, mailbox, nsent, sends,
                   handles, senderPanicked, reporters, cycle, toVisit, handled,
                   calls, out>>
    /\ UNCHANGED fnVars

\* spawn_named("Memory profiler", MemoryProfiler::new(port).start())
CreateSpawnActor ==
    /\ createPc = "actor"
    /\ createPc' = "register"
    /\ actor' = "recv"
    /\ reporters' = EmptyMap
    /\ UNCHANGED <<period, timer, timerSent, panicked, mailbox, nsent, sends,
                   handles, senderPanicked, cycle, toVisit, handled, calls, out>>
    /\ UNCHANGED fnVars

\* memory_profiler_chan.send(RegisterMemoryReporter("system", system_reporter));
\* memory_profiler_chan is returned.
CreateRegisterSystem ==
    /\ createPc = "register"
    /\ createPc' = "returned"
    /\ nsent' = nsent + 1
    /\ mailbox' = Append(mailbox, RegisterMsg(nsent + 1, "create", SystemName, TRUE))
    /\ UNCHANGED <<period, timer, timerSent, actor, panicked, sends, handles,
                   senderPanicked, reporters, cycle, toVisit, handled, calls, out>>
    /\ UNCHANGED fnVars

\* ------------------------------------------------------------------ timer
\* Variant of TimerMsg: the timer sends Exit.
TimerMsgExit(i) == ExitMsg(i, "timer")

\* chan.send(MemoryProfilerMsg::Print)
TimerMsg(i) == PrintMsg(i, "timer")

\* loop { sleep(period_ms); if chan.send(Print).is_err() { break; } }
TimerTick ==
    /\ timer = "sleeping"
    /\ IF PortClosed
       THEN /\ timer' = "done"
            /\ UNCHANGED <<mailbox, nsent, timerSent>>
       ELSE /\ timerSent < MaxTimerPrints
            /\ timerSent' = timerSent + 1
            /\ nsent' = nsent + 1
            /\ mailbox' = Append(mailbox, TimerMsg(nsent + 1))
            /\ UNCHANGED timer
    /\ UNCHANGED <<period, createPc, actor, panicked, sends, handles,
                   senderPanicked, reporters, cycle, toVisit, handled, calls, out>>
    /\ UNCHANGED fnVars

\* ------------------------------------------------------------------ handle holders
\* The messages a handle holder can build with id i.
HolderMsgs(i) ==
    { RegisterMsg(i, "handle", n, FALSE) : n \in Names }
    \cup { UnregisterMsg(i, "handle", n) : n \in Names }
    \cup { PrintMsg(i, "handle"), ExitMsg(i, "handle") }

\* MemoryProfilerChan::send: c.send(msg).unwrap().  On a closed port the
\* unwrap panics the sending thread, whose clone is dropped by the unwinding;
\* it may or may not have been the last clone.
Send ==
    /\ HandleReturned(createPc)
    /\ handles
    /\ sends < MaxSends
    /\ sends' = sends + 1
    /\ IF PortClosed
       THEN /\ senderPanicked' = TRUE
            /\ handles' \in BOOLEAN
            /\ UNCHANGED <<mailbox, nsent>>
       ELSE /\ \E m \in HolderMsgs(nsent + 1) : mailbox' = Append(mailbox, m)
            /\ nsent' = nsent + 1
            /\ UNCHANGED <<senderPanicked, handles>>
    /\ UNCHANGED <<period, createPc, timer, timerSent, actor, panicked,
                   reporters, cycle, toVisit, handled, calls, out>>
    /\ UNCHANGED fnVars

\* The last live clone of the MemoryProfilerChan is dropped.
HandleDrop ==
    /\ HandleReturned(createPc)
    /\ handles
    /\ handles' = FALSE
    /\ UNCHANGED <<period, createPc, timer, timerSent, actor, panicked, mailbox,
                   nsent, sends, senderPanicked, reporters, cycle, toVisit,
                   handled, calls, out>>
    /\ UNCHANGED fnVars

\* ------------------------------------------------------------------ actor
\* Some Sender of the mailbox is still alive.
SendersAlive == handles \/ timer = "sleeping"

\* start: recv() = Ok(Register); handle_msg inserts, panics on a duplicate.
ActorRegister ==
    /\ actor = "recv"
    /\ mailbox # << >>
    /\ LET m == Recv(mailbox).msg
           ins == HashInsert(reporters, m.name, ReporterOf(m))
       IN  /\ m.kind = "Register"
           /\ mailbox' = Recv(mailbox).rest
           /\ handled' = Append(handled, m)
           /\ reporters' = ins.map
           /\ IF RegisterOk(ins.old)
              THEN UNCHANGED <<actor, panicked>>
              ELSE actor' = "exiting" /\ panicked' = TRUE
    /\ UNCHANGED <<period, createPc, timer, timerSent, nsent, sends, handles,
                   senderPanicked, cycle, toVisit, calls, out>>
    /\ UNCHANGED fnVars

\* start: recv() = Ok(Unregister); handle_msg removes, panics on an unknown name.
ActorUnregister ==
    /\ actor = "recv"
    /\ mailbox # << >>
    /\ LET m == Recv(mailbox).msg
           rem == HashRemove(reporters, m.name)
       IN  /\ m.kind = "Unregister"
           /\ mailbox' = Recv(mailbox).rest
           /\ handled' = Append(handled, m)
           /\ reporters' = rem.map
           /\ IF UnregisterOk(rem.old)
              THEN UNCHANGED <<actor, panicked>>
              ELSE actor' = "exiting" /\ panicked' = TRUE
    /\ UNCHANGED <<period, createPc, timer, timerSent, nsent, sends, handles,
                   senderPanicked, cycle, toVisit, calls, out>>
    /\ UNCHANGED fnVars

\* start: recv() = Ok(Print); handle_print_msg prints the header and starts
\* iterating over self.reporters.values().
ActorPrintBegin ==
    /\ actor = "recv"
    /\ mailbox # << >>
    /\ LET m == Recv(mailbox).msg
       IN  /\ m.kind = "Print"
           /\ mailbox' = Recv(mailbox).rest
           /\ handled' = Append(handled, m)
           /\ cycle' = cycle + 1
           /\ out' = Append(out, HeaderLine(cycle + 1))
           /\ toVisit' = Values(reporters)
           /\ actor' = "printing"
    /\ UNCHANGED <<period, createPc, timer, timerSent, panicked, nsent, sends,
                   handles, senderPanicked, reporters, calls>>
    /\ UNCHANGED fnVars

\* handle_print_msg, one iteration of the loop: a fresh channel, the call of
\* collect_reports, port.recv() and the printing of the reports received.
\* Neither the call nor the recv has a timeout: when the reporter never
\* replies the thread stays there.
ActorPrintVisit ==
    /\ actor = "printing"
    /\ \E n \in toVisit :
         \E o \in Outcomes(reporters[n]) :
            /\ toVisit' = toVisit \ {n}
            /\ calls' = Append(calls, [cycle |-> cycle, name |-> n,
                                       rep |-> reporters[n].id, outcome |-> o])
            /\ out' = out \o ReportLines(cycle, reporters[n], Printed(o))
            /\ actor' = IF o.hang = "no" THEN actor ELSE Blocked(o)
    /\ UNCHANGED <<period, createPc, timer, timerSent, panicked, mailbox,
                   nsent, sends, handles, senderPanicked, reporters, cycle, handled>>
    /\ UNCHANGED fnVars

\* handle_print_msg, after the loop: println!(""); handle_msg returns true.
ActorPrintEnd ==
    /\ actor = "printing"
    /\ toVisit = {}
    /\ out' = out \o Trailer(cycle, reporters)
    /\ actor' = "recv"
    /\ UNCHANGED <<period, createPc, timer, timerSent, panicked, mailbox, nsent,
                   sends, handles, senderPanicked, reporters, cycle, toVisit,
                   handled, calls>>
    /\ UNCHANGED fnVars

\* start: recv() = Ok(Exit); handle_msg returns false and the loop breaks.
ActorExit ==
    /\ actor = "recv"
    /\ mailbox # << >>
    /\ LET m == Recv(mailbox).msg
       IN  /\ m.kind = "Exit"
           /\ mailbox' = Recv(mailbox).rest
           /\ handled' = Append(handled, m)
           /\ actor' = IF KeepRunning(m.kind) THEN "recv" ELSE "exiting"
    /\ UNCHANGED <<period, createPc, timer, timerSent, panicked, nsent, sends,
                   handles, senderPanicked, reporters, cycle, toVisit, calls, out>>
    /\ UNCHANGED fnVars

\* start: recv() = Err(_): the channel is empty and every Sender is gone.
ActorRecvClosed ==
    /\ actor = "recv"
    /\ mailbox = << >>
    /\ ~SendersAlive
    /\ actor' = "exiting"
    /\ UNCHANGED <<period, createPc, timer, timerSent, panicked, mailbox, nsent,
                   sends, handles, senderPanicked, reporters, cycle, toVisit,
                   handled, calls, out>>
    /\ UNCHANGED fnVars

\* The actor thread ends (start returned or the panic unwound): the
\* MemoryProfiler is dropped, with its port, the queued messages and the
\* registry.
ActorDrop ==
    /\ actor = "exiting"
    /\ actor' = "terminated"
    /\ mailbox' = << >>
    /\ reporters' = EmptyMap
    /\ UNCHANGED <<period, createPc, timer, timerSent, panicked, nsent, sends,
                   handles, senderPanicked, cycle, toVisit, handled, calls, out>>
    /\ UNCHANGED fnVars

Next ==
    \/ CreateSpawnTimer
    \/ CreateSpawnActor
    \/ CreateRegisterSystem
    \/ TimerTick
    \/ Send
    \/ HandleDrop
    \/ ActorRegister
    \/ ActorUnregister
    \/ ActorPrintBegin
    \/ ActorPrintVisit
    \/ ActorPrintEnd
    \/ ActorExit
    \/ ActorRecvClosed
    \/ ActorDrop

Spec == Init /\ [][Next]_vars

\* The actor thread keeps running: an iteration of the loop of
\* handle_print_msg that can be taken is taken, and so are the end of that
\* loop and the end of the thread once start has returned.
FairSpec ==
    Spec /\ WF_vars(ActorPrintVisit) /\ WF_vars(ActorPrintEnd) /\ WF_vars(ActorDrop)

\* The steps of create's thread and of the actor thread.
CreateStep == CreateSpawnTimer \/ CreateSpawnActor \/ CreateRegisterSystem
ActorStep ==
    \/ ActorRegister
    \/ ActorUnregister
    \/ ActorPrintBegin
    \/ ActorPrintVisit
    \/ ActorPrintEnd
    \/ ActorExit
    \/ ActorRecvClosed
    \/ ActorDrop

\* Every thread of the profiler keeps running: create's thread, the actor
\* thread and the timer thread each take their next step when they have one.
\* (Handle holders are free to send, to drop their handles or to do nothing.)
FairThreadsSpec ==
    Spec /\ WF_vars(CreateStep) /\ WF_vars(ActorStep) /\ WF_vars(TimerTick)

TypeOK ==
    /\ actor \in {"unspawned", "recv", "printing", "blocked_collect",
                 "blocked_recv", "exiting", "terminated"}
    /\ timer \in {"absent", "sleeping", "done"}
    /\ handles \in BOOLEAN
    /\ sends \in 0..MaxSends

\* ------------------------------------------------------------------ get_resident_segments
\* The lines f.lines() can yield.  "err" is a line that could not be read;
\* "seg" a line seg_re matches, with its captures (....) and (.*); "rss" a
\* line rss_re matches, with its capture (\d+); "other" any other line, such
\* as "Size:  4 kB".
SegLine(p, n) == [kind |-> "seg", perms |-> p, path |-> n, kb |-> 0]
RssLine(k) == [kind |-> "rss", perms |-> "", path |-> "", kb |-> k]
ErrLine == [kind |-> "err", perms |-> "", path |-> "", kb |-> 0]
OtherLine == [kind |-> "other", perms |-> "", path |-> "", kb |-> 0]

\* The pathnames and permission flags of the header lines read.
Paths == {"", "[stack:7]", "/lib/a.so"}
Perms == {"rw-p", "r-xp"}
\* The values of the Rss lines read, in kB.
RssKb == {0, 100, 512, 1024}

Lines ==
    {SegLine(p, n) : p \in Perms, n \in Paths}
    \cup {RssLine(k) : k \in RssKb}
    \cup {ErrLine, OtherLine}

\* pathname.starts_with("[stack:")
StartsWithStack(n) == n \in {"[stack:7]"}

\* The segment name built from the captures of a header line.
SegName(perms, pathname) ==
    "- " \o (IF pathname = "" \/ StartsWithStack(pathname)
             THEN "anonymous" ELSE pathname)
         \o " (" \o perms \o ")"

\* cap.at(1).unwrap().parse::<u64>().unwrap() * 1024
RssBytes(kb) == kb * 1024

\* Variant of IsSmall: a segment of exactly 512 KiB counts as small.
IsSmallOrEqual(rss) == rss <= 512 * 1024

\* rss < 512 * 1024
IsSmall(rss) == rss < 512 * 1024

\* The key a segment of size rss is recorded under.
SegKey(name, rss) == IF IsSmall(rss) THEN "- other" ELSE name

\* Variant of Accumulate: an occupied entry is overwritten.
AccumulateOverwrite(map, key, rss) ==
    [n \in (DOMAIN map) \cup {key} |-> IF n = key THEN rss ELSE map[n]]

\* match seg_map.entry(seg_name): Vacant => insert(rss), Occupied => += rss
Accumulate(map, key, rss) ==
    [n \in (DOMAIN map) \cup {key} |->
        IF n = key THEN (IF key \in DOMAIN map THEN map[key] + rss ELSE rss)
        ELSE map[n]]

\* Variant of AfterRss: only a non-zero Rss line ends the search for one.
AfterRssIfRecorded(rss) == IF rss > 0 THEN "Segment" ELSE "Rss"

\* looking_for after a line matched rss_re (the assignment follows the if).
AfterRss(rss) == "Segment"

\* An element of the Vec<(String, u64)>.
Seg(n, sz) == [name |-> n, size |-> sz]

\* seg_map.into_iter().collect(): the entries in one of the orders a HashMap
\* can yield them.
Collected(map) ==
    LET D == DOMAIN map
        k == Cardinality(D)
    IN  { [i \in 1..k |-> Seg(f[i], map[f[i]])] :
            f \in {g \in [1..k -> D] : \A i, j \in 1..k : g[i] = g[j] => i = j} }

\* segs.iter().map(|&(_, size)| size).sum()
RECURSIVE SumSizes(_)
SumSizes(v) == IF v = << >> THEN 0 ELSE v[1].size + SumSizes(Tail(v))

\* x put into the sorted v behind every element that does not sort after it.
InsertStable(v, x) ==
    LET k == Cardinality({i \in 1..Len(v) : v[i].size >= x.size})
    IN  SubSeq(v, 1, k) \o <<x>> \o SubSeq(v, k + 1, Len(v))

\* segs.sort_by(|&(_, rss1), &(_, rss2)| rss2.cmp(&rss1)): a stable sort by
\* decreasing size.
RECURSIVE SortBySizeDesc(_)
SortBySizeDesc(v) ==
    IF v = << >> THEN << >>
    ELSE InsertStable(SortBySizeDesc(SubSeq(v, 1, Len(v) - 1)), v[Len(v)])

\* The name of the total entry.
TotalName == "resident-according-to-smaps"

\* get_resident_segments is called; File::open succeeds or fails.
SmapsInit ==
    /\ ActorInit
    /\ period = "none"
    /\ JeIdle
    /\ SizeIdle
    /\ smPc = "scan"
    /\ smOpened \in BOOLEAN
    /\ nlines = 0
    /\ line = NoLine
    /\ lastHeader = ""
    /\ looking_for = "Segment"
    /\ curr_seg_name = ""
    /\ seg_map = EmptyMap
    /\ recorded = << >>
    /\ segs = << >>

\* The lines the reader can yield next: any line of an opened file, only
\* read errors when File::open failed.
Readable == IF smOpened THEN Lines ELSE {ErrLine}

\* for line in f.lines(): Err(_) => continue
ScanErr ==
    /\ smPc = "scan"
    /\ nlines < MaxLines
    /\ ErrLine \in Readable
    /\ line' = ErrLine
    /\ nlines' = nlines + 1
    /\ UNCHANGED <<smPc, smOpened, lastHeader, looking_for, curr_seg_name,
                   seg_map, recorded, segs>>
    /\ UNCHANGED <<actorVars, jeVars, sizeVars>>

\* looking_for == Segment: a line seg_re does not match is skipped; a header
\* line sets curr_seg_name and looking_for = Rss.
ScanSegment ==
    /\ smPc = "scan"
    /\ nlines < MaxLines
    /\ looking_for = "Segment"
    /\ \E l \in Readable \ {ErrLine} :
          /\ line' = l
          /\ lastHeader' = IF l.kind = "seg" THEN SegName(l.perms, l.path)
                           ELSE lastHeader
          /\ IF l.kind = "seg"
             THEN /\ curr_seg_name' = SegName(l.perms, l.path)
                  /\ looking_for' = "Rss"
             ELSE UNCHANGED <<curr_seg_name, looking_for>>
    /\ nlines' = nlines + 1
    /\ UNCHANGED <<smPc, smOpened, seg_map, recorded, segs>>
    /\ UNCHANGED <<actorVars, jeVars, sizeVars>>

\* looking_for == Rss: a line rss_re does not match is skipped; an Rss line
\* with rss > 0 is recorded, and looking_for = Segment.
ScanRss ==
    /\ smPc = "scan"
    /\ nlines < MaxLines
    /\ looking_for = "Rss"
    /\ \E l \in Readable \ {ErrLine} :
          /\ line' = l
          /\ lastHeader' = IF l.kind = "seg" THEN SegName(l.perms, l.path)
                           ELSE lastHeader
          /\ IF l.kind = "rss"
             THEN LET rss == RssBytes(l.kb)
                  IN  /\ IF rss > 0
                         THEN /\ seg_map' = Accumulate(seg_map,
                                               SegKey(curr_seg_name, rss), rss)
                              /\ recorded' = Append(recorded,
                                               [name |-> curr_seg_name, rss |-> rss,
                                                header |-> lastHeader])
                         ELSE UNCHANGED <<seg_map, recorded>>
                      /\ looking_for' = AfterRss(rss)
             ELSE UNCHANGED <<seg_map, recorded, looking_for>>
    /\ nlines' = nlines + 1
    /\ UNCHANGED <<smPc, smOpened, curr_seg_name, segs>>
    /\ UNCHANGED <<actorVars, jeVars, sizeVars>>

\* The lines are exhausted: collect seg_map, push the total and sort.
ScanEnd ==
    /\ smPc = "scan"
    /\ \E v \in Collected(seg_map) :
          segs' = SortBySizeDesc(Append(v, Seg(TotalName, SumSizes(v))))
    /\ smPc' = "done"
    /\ UNCHANGED <<smOpened, nlines, line, lastHeader, looking_for,
                   curr_seg_name, seg_map, recorded>>
    /\ UNCHANGED <<actorVars, jeVars, sizeVars>>

SmapsNext == ScanErr \/ ScanSegment \/ ScanRss \/ ScanEnd

SmapsSpec == SmapsInit /\ [][SmapsNext]_vars

\* ------------------------------------------------------------------ get_jemalloc_stat
\* The values je_mallctl returns: 0, or an errno (EAGAIN).
RvValues == {0, 11}

\* Variant of Failed_rv: a non-zero rv is not looked at.
RvIgnored(rv) == FALSE

\* if rv != 0 { return None; }
Failed_rv(rv) == rv # 0

\* get_jemalloc_stat(value_name) is called once.
JeInit ==
    /\ ActorInit
    /\ period = "none"
    /\ SmapsIdle
    /\ SizeIdle
    /\ jePc = "epoch"
    /\ value_name \in StatNames
    /\ liveStats \in [StatNames -> StatValues]
    /\ cachedStats = [s \in StatNames |-> 4096]
    /\ cachedIn = 0
    /\ invocations = 1
    /\ rvEpoch = NotCalled
    /\ rvValue = NotCalled
    /\ ctlLog = << >>
    /\ jeResult = None

\* The next call of get_jemalloc_stat (report(...) in collect_reports).
JeCall ==
    /\ jePc = "done"
    /\ invocations < MaxStatCalls
    /\ invocations' = invocations + 1
    /\ value_name' \in StatNames
    /\ jePc' = "epoch"
    /\ rvEpoch' = NotCalled
    /\ rvValue' = NotCalled
    /\ ctlLog' = << >>
    /\ jeResult' = None
    /\ UNCHANGED <<liveStats, cachedStats, cachedIn>>
    /\ UNCHANGED <<actorVars, smapsVars, sizeVars>>

\* The application allocates or frees, at any time: a statistic changes.
JeAllocate ==
    /\ jePc # "idle"
    /\ \E s \in StatNames, v \in StatValues :
          /\ liveStats[s] # v
          /\ liveStats' = [liveStats EXCEPT ![s] = v]
    /\ UNCHANGED <<jePc, value_name, cachedStats, cachedIn, invocations,
                   rvEpoch, rvValue, ctlLog, jeResult>>
    /\ UNCHANGED <<actorVars, smapsVars, sizeVars>>

\* je_mallctl("epoch", ...): on success the allocator refreshes its cached
\* statistics; if rv != 0 { return None; }
JeEpoch ==
    /\ jePc = "epoch"
    /\ \E rv \in RvValues :
          /\ rvEpoch' = rv
          /\ IF rv = 0
             THEN cachedStats' = liveStats /\ cachedIn' = invocations
             ELSE UNCHANGED <<cachedStats, cachedIn>>
          /\ IF Failed_rv(rv)
             THEN jePc' = "done" /\ jeResult' = None
             ELSE jePc' = "read" /\ UNCHANGED jeResult
    /\ ctlLog' = Append(ctlLog, "epoch")
    /\ UNCHANGED <<value_name, liveStats, invocations, rvValue>>
    /\ UNCHANGED <<actorVars, smapsVars, sizeVars>>

\* je_mallctl(value_name, ...): on success value is the cached statistic;
\* if rv != 0 { return None; }  Some(value as u64)
JeRead ==
    /\ jePc = "read"
    /\ \E rv \in RvValues :
          /\ rvValue' = rv
          /\ jeResult' = IF rv # 0 THEN None ELSE Some(cachedStats[value_name])
    /\ ctlLog' = Append(ctlLog, value_name)
    /\ jePc' = "done"
    /\ UNCHANGED <<value_name, liveStats, cachedStats, cachedIn, invocations,
                   rvEpoch>>
    /\ UNCHANGED <<actorVars, smapsVars, sizeVars>>

JeNext == JeCall \/ JeAllocate \/ JeEpoch \/ JeRead

JemallocSpec == JeInit /\ [][JeNext]_vars

\* ------------------------------------------------------------------ size_of_excluding_self
\* Variant of Queries: the allocator is asked about every pointer.
QueriesAlways(ptr) == <<ptr>>

\* The pointers heap_size_of(ptr) passes to je_malloc_usable_size.
Queries(ptr) == IF ptr = EMPTY THEN << >> ELSE <<ptr>>

\* heap_size_of(ptr)
heap_size_of(ptr) == IF ptr = EMPTY THEN 0 ELSE usable[ptr]

\* impl SizeOf for String, a String being given by its buffer pointer:
\* heap_size_of(self.as_ptr())
StringSizeOf(s) == heap_size_of(s)

\* Variant of NextLink: the link of a node is read as None.
NextIsNone(b) == NoLink

\* curr.as_ref().unwrap().next
NextLink(b) == nodes[b].next

\* The sequences over S of at most k elements.
SeqsUpTo(S, k) == UNION {[1..m -> S] : m \in 0..k}

\* Every heap block has one owner: no two pointers of v are the same block.
Unshared(v) ==
    \A i, j \in 1..Len(v) : (i # j /\ v[i] # EMPTY) => v[i] # v[j]

\* The Vec<String> values measured: a Vec whose buffer was never allocated
\* has no element.
VecInputs ==
    {[ptr |-> p, elems |-> e] :
        <<p, e>> \in {x \in (Blocks \cup {EMPTY}) \X SeqsUpTo(Blocks \cup {EMPTY}, MaxElems) :
                         /\ x[1] = EMPTY => x[2] = << >>
                         /\ Unshared(<<x[1]>> \o x[2])}}

\* The DList<String> values measured, as the sequence of the node blocks and
\* the sequence of the values' buffers.
ListInputs ==
    {x \in SeqsUpTo(Blocks, MaxNodes) \X SeqsUpTo(Blocks \cup {EMPTY}, MaxNodes) :
        /\ Len(x[1]) = Len(x[2])
        /\ Unshared(x[1] \o x[2])}

\* The nodes of the list x: each Box<Node> owns the next one.
NodesOf(x) ==
    [b \in {x[1][i] : i \in 1..Len(x[1])} |->
        LET i == CHOOSE k \in 1..Len(x[1]) : x[1][k] = b
        IN  [next |-> IF i < Len(x[1]) THEN x[1][i + 1] ELSE NoLink,
             value |-> x[2][i]]]

\* size_of_excluding_self is called on a Vec<String> or on a DList<String>.
SizeInit ==
    /\ ActorInit
    /\ period = "none"
    /\ SmapsIdle
    /\ JeIdle
    /\ usable \in [Blocks -> UsableSizes]
    /\ \/ /\ measured = "Vec"
          /\ szPc = "vec_buffer"
          /\ vec \in VecInputs
          /\ list_head = NoLink
          /\ nodes = NoNodes
       \/ /\ measured = "DList"
          /\ szPc = "list_begin"
          /\ vec = [ptr |-> EMPTY, elems |-> << >>]
          /\ \E x \in ListInputs :
                /\ list_head = IF x[1] = << >> THEN NoLink ELSE x[1][1]
                /\ nodes = NodesOf(x)
    /\ curr = NoLink
    /\ elem_i = 0
    /\ size = 0
    /\ fold_n = 0
    /\ szResult = 0
    /\ queried = << >>
    /\ visited = << >>

\* Vec: heap_size_of(self.as_ptr() as *const c_void) + ...
VecBuffer ==
    /\ szPc = "vec_buffer"
    /\ size' = heap_size_of(vec.ptr)
    /\ queried' = queried \o Queries(vec.ptr)
    /\ elem_i' = 1
    /\ fold_n' = 0
    /\ szPc' = "vec_fold"
    /\ UNCHANGED <<measured, usable, vec, list_head, nodes, curr, szResult, visited>>
    /\ UNCHANGED <<actorVars, smapsVars, jeVars>>

\* Vec: self.iter().fold(0, |n, elem| n + elem.size_of_excluding_self())
VecFold ==
    /\ szPc = "vec_fold"
    /\ elem_i <= Len(vec.elems)
    /\ fold_n' = fold_n + StringSizeOf(vec.elems[elem_i])
    /\ queried' = queried \o Queries(vec.elems[elem_i])
    /\ elem_i' = elem_i + 1
    /\ UNCHANGED <<szPc, measured, usable, vec, list_head, nodes, curr, size,
                   szResult, visited>>
    /\ UNCHANGED <<actorVars, smapsVars, jeVars>>

\* Vec: the sum of the two is returned.
VecReturn ==
    /\ szPc = "vec_fold"
    /\ elem_i > Len(vec.elems)
    /\ szResult' = size + fold_n
    /\ szPc' = "done"
    /\ UNCHANGED <<measured, usable, vec, list_head, nodes, curr, elem_i, size,
                   fold_n, queried, visited>>
    /\ UNCHANGED <<actorVars, smapsVars, jeVars>>

\* DList2: let mut size = 0; let mut curr = &self.list_head;
ListBegin ==
    /\ szPc = "list_begin"
    /\ size' = 0
    /\ curr' = list_head
    /\ szPc' = "list_loop"
    /\ UNCHANGED <<measured, usable, vec, list_head, nodes, elem_i, fold_n,
                   szResult, queried, visited>>
    /\ UNCHANGED <<actorVars, smapsVars, jeVars>>

\* DList2: while curr.is_some() { size += (*curr).size_of_excluding_self();
\* curr = &curr.as_ref().unwrap().next; }  The Option gives the Box, the Box
\* its own block and the Node, the Node its value.
ListVisit ==
    /\ szPc = "list_loop"
    /\ curr # NoLink
    /\ size' = size + (heap_size_of(curr) + StringSizeOf(nodes[curr].value))
    /\ queried' = queried \o Queries(curr) \o Queries(nodes[curr].value)
    /\ visited' = Append(visited, curr)
    /\ curr' = NextLink(curr)
    /\ UNCHANGED <<szPc, measured, usable, vec, list_head, nodes, elem_i, fold_n,
                   szResult>>
    /\ UNCHANGED <<actorVars, smapsVars, jeVars>>

\* DList2: curr is None: size is returned.
ListReturn ==
    /\ szPc = "list_loop"
    /\ curr = NoLink
    /\ szResult' = size
    /\ szPc' = "done"
    /\ UNCHANGED <<measured, usable, vec, list_head, nodes, curr, elem_i, size,
                   fold_n, queried, visited>>
    /\ UNCHANGED <<actorVars, smapsVars, jeVars>>

SizeNext ==
    VecBuffer \/ VecFold \/ VecReturn \/ ListBegin \/ ListVisit \/ ListReturn

SizeOfSpec == SizeInit /\ [][SizeNext]_vars

\* The measuring thread keeps running its loop.
FairSizeOfSpec ==
    SizeOfSpec /\ WF_vars(ListBegin) /\ WF_vars(ListVisit) /\ WF_vars(ListReturn)

\* ------------------------------------------------------------------ properties
\* The registry the message protocol prescribes after the messages h were
\* handled: name -> id of the reporter registered under it.  A Register of a
\* present name and an Unregister of an absent name leave it as it is.
RECURSIVE Expected(_)
Expected(h) ==
    IF h = << >> THEN EmptyMap
    ELSE LET p == Expected(SubSeq(h, 1, Len(h) - 1))
             m == h[Len(h)]
         IN  IF m.kind = "Register" /\ m.name \notin DOMAIN p
             THEN [n \in (DOMAIN p) \cup {m.name} |-> IF n = m.name THEN m.id ELSE p[n]]
             ELSE IF m.kind = "Unregister" /\ m.name \in DOMAIN p
             THEN [n \in (DOMAIN p) \ {m.name} |-> p[n]]
             ELSE p

\* Message i of h is a Register of a present name.
DuplicateAt(h, i) ==
    h[i].kind = "Register" /\ h[i].name \in DOMAIN Expected(SubSeq(h, 1, i - 1))
\* Message i of h is an Unregister of an absent name.
UnknownAt(h, i) ==
    h[i].kind = "Unregister" /\ h[i].name \notin DOMAIN Expected(SubSeq(h, 1, i - 1))
\* No message of h violates the precondition of Register or Unregister.
WellFormed(h) == \A i \in 1..Len(h) : ~DuplicateAt(h, i) /\ ~UnknownAt(h, i)

\* The messages handled before Print cycle c began.
BeforeCycle(c) ==
    LET prints == {i \in 1..Len(handled) : handled[i].kind = "Print"}
        idx == CHOOSE i \in prints :
                  Cardinality({j \in prints : j <= i}) = c
    IN  SubSeq(handled, 1, idx - 1)

\* The collect_reports calls of Print cycle c, as a set of positions in calls.
CallsOf(c) == {k \in 1..Len(calls) : calls[k].cycle = c}
\* Print cycle c ran to its end.
CycleDone(c) == c >= 1 /\ (c < cycle \/ (c = cycle /\ actor # "printing" /\ ~Stalled))
\* The batch of cycle c: the positions of its lines in out.
LinesOf(c) == {i \in 1..Len(out) : out[i].cycle = c}

\* C1: after a well-formed sequence of Register/Unregister messages that
\* leaves the registry holding R, a Print cycle calls collect_reports exactly
\* once on each reporter of R and on no reporter outside R.
C1_PrintVisitsExactlyRegistry ==
    \A c \in 1..cycle :
        LET h == BeforeCycle(c)
            R == Expected(h)
        IN  WellFormed(h) =>
              /\ \A k \in CallsOf(c) :
                    /\ calls[k].name \in DOMAIN R
                    /\ calls[k].rep = R[calls[k].name]
              /\ \A k1, k2 \in CallsOf(c) :
                    calls[k1].name = calls[k2].name => k1 = k2
              /\ CycleDone(c) =>
                    {calls[k].name : k \in CallsOf(c)} = DOMAIN R

\* A Print cycle has run to its end and called a reporter, after a Register
\* and an Unregister of a holder were handled.
C1_Witness ==
    /\ cycle >= 1
    /\ CycleDone(cycle)
    /\ WellFormed(BeforeCycle(cycle))
    /\ \E i \in 1..Len(BeforeCycle(cycle)) : handled[i].kind = "Unregister"
    /\ \E i \in 1..Len(BeforeCycle(cycle)) :
          handled[i].kind = "Register" /\ handled[i].from = "handle"
    /\ CallsOf(cycle) # {}

\* C2: handling a Register whose name is already registered is fatal: the
\* actor thread panics, it handles no later message, and no Print cycle ever
\* calls the reporter that the duplicate Register carried.
C2_DuplicateRegisterIsFatal ==
    \A i \in 1..Len(handled) :
        DuplicateAt(handled, i) =>
            /\ i = Len(handled)
            /\ panicked
            /\ actor \in {"exiting", "terminated"}
            /\ \A k \in 1..Len(calls) : calls[k].rep # handled[i].id

\* A duplicate Register was handled while its name was registered, after a
\* Print cycle had called the earlier reporter.
C2_Witness ==
    /\ Len(handled) >= 1
    /\ DuplicateAt(handled, Len(handled))
    /\ panicked
    /\ calls # << >>

\* C3: handling an Unregister of an unknown name is fatal (the actor handles
\* no later message); handling an Unregister of a registered name removes
\* exactly that entry, and no later Print cycle calls that reporter until the
\* name is registered again.
C3_UnregisterRemovesOrIsFatal ==
    /\ \A i \in 1..Len(handled) :
          UnknownAt(handled, i) =>
              /\ i = Len(handled)
              /\ panicked
              /\ actor \in {"exiting", "terminated"}
    /\ ( /\ Len(handled) >= 1
         /\ handled[Len(handled)].kind = "Unregister"
         /\ ~UnknownAt(handled, Len(handled))
         /\ actor # "terminated" )
       => /\ DOMAIN reporters = DOMAIN Expected(handled)
          /\ \A n \in DOMAIN reporters : reporters[n].id = Expected(handled)[n]
    /\ \A k \in 1..Len(calls) :
          LET h == BeforeCycle(calls[k].cycle)
              about == {i \in 1..Len(h) : h[i].name = calls[k].name
                                          /\ h[i].kind \in {"Register", "Unregister"}}
          IN  /\ about # {}
              /\ LET last == CHOOSE i \in about : \A j \in about : j <= i
                 IN  h[last].kind = "Register" /\ h[last].id = calls[k].rep

\* A Print cycle ran to its end after a registered name was unregistered
\* while another reporter stayed registered.
C3_Witness ==
    /\ cycle >= 1
    /\ CycleDone(cycle)
    /\ ~panicked
    /\ \E i \in 1..Len(BeforeCycle(cycle)) :
          handled[i].kind = "Unregister" /\ ~UnknownAt(handled, i)
    /\ calls # << >>

\* An Unregister of an unknown name was handled.
C3_WitnessFatal ==
    /\ Len(handled) >= 1
    /\ UnknownAt(handled, Len(handled))
    /\ panicked
\* The report lines printed for the call calls[k], as MemoryReports in order.
LinesOfCall(k) ==
    LET T(l) == l.kind = "report" /\ l.cycle = calls[k].cycle /\ l.rep = calls[k].rep
        ls == SelectSeq(out, T)
    IN  [i \in 1..Len(ls) |-> MemoryReport(ls[i].name, ls[i].size)]

\* collect_reports returned false, or returned true without a message.
Failed(o) == ~o.ret \/ ~o.sent

\* The calls and the lines of the cycles in which a reporter failed: a failed
\* call has no report line, a successful call has its reports as lines, and
\* every registered reporter is called or still to be called.
FailedReporterContributesNothing ==
    /\ \A k \in 1..Len(calls) :
          LinesOfCall(k) = IF Failed(calls[k].outcome) THEN << >>
                           ELSE calls[k].outcome.reports
    /\ \A c \in 1..cycle :
          (\E k \in CallsOf(c) : Failed(calls[k].outcome)) =>
              /\ {calls[k].name : k \in CallsOf(c)}
                    \cup (IF CycleDone(c) THEN {} ELSE toVisit)
                 = DOMAIN Expected(BeforeCycle(c))
              /\ CycleDone(c) => \E i \in LinesOf(c) : out[i].kind = "blank"

\* C4: in a Print cycle, a reporter whose collect_reports returns false (even
\* after sending reports) or returns true without a message contributes no
\* report line; every other registered reporter is still visited and its
\* reports are printed; the cycle always runs to its end (a failure does not
\* end it; only a reporter that never replies keeps it from ending).
C4_FailedReporterIsSkipped ==
    /\ []FailedReporterContributesNothing
    /\ (actor = "printing") ~> (actor = "recv" \/ Stalled)
    /\ [][ (actor = "printing" /\ calls' # calls
             /\ calls'[Len(calls')].outcome.hang = "no") =>
             actor' = "printing" ]_vars

\* A cycle ran to its end in which one reporter sent reports and returned
\* false and another reporter's reports were printed.
C4_Witness ==
    /\ cycle >= 1
    /\ CycleDone(cycle)
    /\ \E k1, k2 \in CallsOf(cycle) :
          /\ ~calls[k1].outcome.ret
          /\ calls[k1].outcome.sent
          /\ calls[k1].outcome.reports # << >>
          /\ ~Failed(calls[k2].outcome)
          /\ LinesOfCall(k2) # << >>

\* An Exit message is among the messages h.
ExitHandled(h) == \E i \in 1..Len(h) : h[i].kind = "Exit"

\* C5: once the actor has dequeued Exit its loop has stopped: Exit is the last
\* message it handles, no reporter is called and nothing is printed
\* afterwards; the thread ends, and then the registry is dropped.
C5_ExitTerminates ==
    /\ ExitHandled(handled) ~> (actor = "terminated")
    /\ [][ ExitHandled(handled') =>
          /\ handled'[Len(handled')].kind = "Exit"
          /\ actor' \in {"exiting", "terminated"}
          /\ actor' = "terminated" => reporters' = EmptyMap /\ mailbox' = << >>
          /\ ExitHandled(handled) =>
                /\ handled' = handled
                /\ calls' = calls
                /\ out' = out
                /\ actor = "terminated" => actor' = "terminated" ]_vars

\* The actor thread ended on an Exit while messages were queued behind it,
\* after a Print cycle had called a reporter.
C5_Witness ==
    /\ ExitHandled(handled)
    /\ actor = "terminated"
    /\ nsent > Len(handled)
    /\ calls # << >>

\* C6: messages are handled one at a time in the order they entered the
\* mailbox; no message is dequeued while a Print cycle runs, so the cycle
\* visits exactly the registry it found when its Print was dequeued.
C6_OneMessageAtATimeInOrder ==
    [][ /\ \A i \in 1..Len(handled') : handled'[i].id = i
        /\ Len(handled') <= Len(handled) + 1
        /\ actor = "printing" =>
              /\ handled' = handled
              /\ reporters' = reporters
              /\ toVisit' \subseteq toVisit
              /\ {calls'[k].name : k \in {j \in 1..Len(calls') : calls'[j].cycle = cycle}}
                    \cup toVisit' = DOMAIN reporters
        /\ (actor # "printing" /\ actor' = "printing") =>
              toVisit' = DOMAIN reporters /\ reporters' = reporters
        /\ (actor = "printing" /\ actor' # "printing" /\ ~Stalled') =>
              toVisit = {} ]_vars

\* A Print cycle is under way, with a reporter visited and one still to
\* visit, while a Register or Unregister waits in the mailbox.
C6_Witness ==
    /\ actor = "printing"
    /\ toVisit # {}
    /\ CallsOf(cycle) # {}
    /\ \E i \in 1..Len(mailbox) : mailbox[i].kind \in {"Register", "Unregister"}

\* C7: every message sent through the handle create returned is handled after
\* the Register of the system reporter that create sent; the "system" entry
\* leaves the registry only when an Unregister("system") is handled (or when
\* the ending actor thread drops the whole registry).
C7_SystemRegisteredFirst ==
    [][ /\ \A i \in 1..Len(handled') :
              handled'[i].from = "handle" =>
                  \E j \in 1..(i - 1) :
                      handled'[j] = RegisterMsg(j, "create", SystemName, TRUE)
        /\ (SystemName \in DOMAIN reporters /\ SystemName \notin DOMAIN reporters') =>
              \/ actor = "exiting" /\ actor' = "terminated"
              \/ /\ Len(handled') = Len(handled) + 1
                 /\ handled'[Len(handled')].kind = "Unregister"
                 /\ handled'[Len(handled')].name = SystemName ]_vars

\* With a timer, a message of a handle holder was handled while the system
\* reporter was registered, and a Print cycle called the system reporter.
C7_Witness ==
    /\ period = "some"
    /\ \E i \in 1..Len(handled) : handled[i].from = "handle"
    /\ SystemName \in DOMAIN reporters
    /\ \E k \in 1..Len(calls) : calls[k].name = SystemName

\* C8: in a run without a duplicate Register and without an Unregister of an
\* unknown name no thread terminates abnormally: neither the actor, nor the
\* timer, nor a handle holder sending through MemoryProfilerChan::send.
C8_NoAbnormalTermination ==
    WellFormed(handled) =>
        /\ ~panicked
        /\ ~senderPanicked
        /\ timer \in {"absent", "sleeping", "done"}

\* The lines of the calls k..Len(calls) that belong to cycle c, in call order.
RECURSIVE CallLines(_, _)
CallLines(c, k) ==
    IF k > Len(calls) THEN << >>
    ELSE (IF calls[k].cycle = c /\ calls[k].outcome.ret /\ calls[k].outcome.sent
          THEN [i \in 1..Len(calls[k].outcome.reports) |->
                   [kind |-> "report", cycle |-> c, rep |-> calls[k].rep,
                    name |-> calls[k].outcome.reports[i].name,
                    size |-> calls[k].outcome.reports[i].size]]
          ELSE << >>) \o CallLines(c, k + 1)

\* The batches of the cycles c..cycle.
RECURSIVE Batches(_)
Batches(c) ==
    IF c > cycle THEN << >>
    ELSE << [kind |-> "header", cycle |-> c, rep |-> 0, name |-> "_category_", size |-> 0] >>
         \o CallLines(c, 1)
         \o (IF CycleDone(c)
             THEN << [kind |-> "blank", cycle |-> c, rep |-> 0, name |-> "", size |-> 0] >>
             ELSE << >>)
         \o Batches(c + 1)

\* C9: the output is the sequence of the batches of the Print cycles, one
\* after the other: the header, the reports of each successful reporter
\* (contiguous, in the order listed), and one blank line once the cycle has
\* ended, also for an empty registry or when every reporter failed.
C9_BatchForm == out = Batches(1)

\* Two batches are complete: one of a cycle over an empty registry, without a
\* report line, and one with the report lines of a reporter.
C9_Witness ==
    /\ cycle >= 2
    /\ CycleDone(cycle)
    /\ \E c \in 1..cycle :
          /\ Expected(BeforeCycle(c)) = EmptyMap
          /\ \A i \in LinesOf(c) : out[i].kind # "report"
    /\ \E c \in 1..cycle : \E i \in LinesOf(c) : out[i].kind = "report"

\* The number of Print messages among the messages h.
PrintsIn(h) == Cardinality({i \in 1..Len(h) : h[i].kind = "Print"})

\* C10: the timer thread exists only when a period was given; it sends only
\* Print messages, each while the actor's port is open; once the actor thread
\* has ended its next send fails and it ends without sending anything and
\* without panicking.  Without a period the actor runs one Print cycle per
\* Print message of a handle holder that it handles.
C10_TimerSendsPrintUntilActorEnds ==
    [][ /\ \A i \in 1..Len(mailbox') :
              mailbox'[i].from = "timer" => mailbox'[i].kind = "Print"
        /\ \A i \in 1..Len(handled') :
              handled'[i].from = "timer" => handled'[i].kind = "Print"
        /\ timerSent' # timerSent =>
              /\ ~PortClosed
              /\ timer = "sleeping" /\ timer' = "sleeping"
              /\ timerSent' = timerSent + 1
              /\ mailbox' = Append(mailbox, PrintMsg(nsent + 1, "timer"))
        /\ PortClosed => timerSent' = timerSent /\ mailbox' = mailbox
        /\ timer' # timer =>
              \/ createPc = "timer" /\ period = "some" /\ timer' = "sleeping"
              \/ timer = "sleeping" /\ PortClosed /\ timer' = "done"
        /\ timer' \in {"absent", "sleeping", "done"}
        /\ cycle' = PrintsIn(handled')
        /\ period = "none" =>
              /\ timer' = "absent"
              /\ timerSent' = 0
              /\ \A i \in 1..Len(handled') :
                    handled'[i].kind = "Print" => handled'[i].from = "handle" ]_vars

\* The timer sent a Print, the actor handled it and later ended, and the
\* timer's next send failed and ended the timer thread.
C10_Witness ==
    /\ timer = "done"
    /\ timerSent >= 1
    /\ \E i \in 1..Len(handled) : handled[i].from = "timer"
    /\ actor = "terminated"

\* ------------------------------------------------------------------ properties of get_resident_segments
\* The sum of the resident sizes of the recorded segments v.
RECURSIVE SumRss(_)
SumRss(v) == IF v = << >> THEN 0 ELSE v[1].rss + SumRss(Tail(v))

\* The recorded segments named n of at least 512 KiB, and all named n.
LargeNamed(n) ==
    LET T(r) == r.name = n /\ r.rss >= 524288 IN SelectSeq(recorded, T)
AllNamed(n) ==
    LET T(r) == r.name = n IN SelectSeq(recorded, T)
\* The recorded segments below 512 KiB.
SmallRecorded ==
    LET T(r) == r.rss < 524288 IN SelectSeq(recorded, T)

\* The positions of the entries named n in the list returned.
EntriesNamed(n) == {i \in 1..Len(segs) : segs[i].name = n}

\* C11: a recorded segment is reported under its own name exactly when its
\* resident size is at least 512 KiB (524288 bytes); the recorded segments
\* below that are added up in the single entry "- other".
C11_SmallSegmentsGoToOther ==
    /\ \A i \in 1..Len(recorded) :
          /\ recorded[i].rss > 0
          /\ recorded[i].rss >= 524288 => recorded[i].name \in DOMAIN seg_map
    /\ \A n \in (DOMAIN seg_map) \ {"- other"} :
          /\ LargeNamed(n) # << >>
          /\ seg_map[n] = SumRss(LargeNamed(n))
    /\ "- other" \in DOMAIN seg_map <=> SmallRecorded # << >>
    /\ "- other" \in DOMAIN seg_map => seg_map["- other"] = SumRss(SmallRecorded)
    /\ smPc = "done" =>
          /\ Len(segs) = Cardinality(DOMAIN seg_map) + 1
          /\ \A n \in DOMAIN seg_map :
                \E i \in 1..Len(segs) : segs[i] = Seg(n, seg_map[n])

\* The example of the specification: /lib/a.so rw-p with Rss 1024 kB and an
\* anonymous rw-p segment with Rss 100 kB.
C11_Witness ==
    /\ smPc = "done"
    /\ [i \in 1..Len(recorded) |-> [name |-> recorded[i].name, rss |-> recorded[i].rss]]
       = << [name |-> "- /lib/a.so (rw-p)", rss |-> 1048576],
            [name |-> "- anonymous (rw-p)", rss |-> 102400] >>
    /\ segs = << Seg(TotalName, 1150976), Seg("- /lib/a.so (rw-p)", 1048576),
                 Seg("- other", 102400) >>

\* C12: the list returned is ordered by non-increasing size, and its first
\* element is the total entry, whose size is the sum of the other entries.
C12_SortedTotalFirst ==
    smPc = "done" =>
        /\ \A i, j \in 1..Len(segs) : i < j => segs[i].size >= segs[j].size
        /\ segs[1].name = TotalName
        /\ segs[1].size = SumSizes(Tail(segs))

\* C13, as claimed: any two recorded segments with the same name have their
\* sizes summed in one entry of the output under that name, and no name
\* occurs twice in the output.
C13_SameNameSummed ==
    smPc = "done" =>
        /\ \A i, j \in 1..Len(recorded) :
              (i # j /\ recorded[i].name = recorded[j].name) =>
                  \E k \in 1..Len(segs) :
                      segs[k] = Seg(recorded[i].name, SumRss(AllNamed(recorded[i].name)))
        /\ \A n \in {segs[k].name : k \in 1..Len(segs)} :
              Cardinality(EntriesNamed(n)) = 1

\* C13, amended: the recorded segments of one name that are at least 512 KiB
\* each have their sizes summed in the one entry of that name (smaller ones
\* are not counted there), and no name occurs twice in the output.
C13_LargeSameNameSummed ==
    smPc = "done" =>
        /\ \A i \in 1..Len(recorded) :
              LET n == recorded[i].name
              IN  IF LargeNamed(n) # << >>
                  THEN \E k \in 1..Len(segs) : segs[k] = Seg(n, SumRss(LargeNamed(n)))
                  ELSE EntriesNamed(n) = {}
        /\ \A n \in {segs[k].name : k \in 1..Len(segs)} :
              Cardinality(EntriesNamed(n)) = 1

\* Two segments of one name, each at least 512 KiB, were recorded and the
\* list was returned.
C13_Witness ==
    /\ smPc = "done"
    /\ \E i, j \in 1..Len(recorded) :
          /\ i < j
          /\ recorded[i].name = recorded[j].name
          /\ recorded[i].rss >= 524288
          /\ recorded[j].rss >= 524288

\* C14: when /proc/self/smaps cannot be opened the query ends with an empty
\* list (unreadable and non-matching lines are skipped by ScanErr,
\* ScanSegment and ScanRss).
C14_OpenFailureGivesEmptyList ==
    (smPc = "done" /\ ~smOpened) => segs = << >>

\* C17, as claimed: the scan starts looking for a header; a header line moves
\* it to looking for Rss; an Rss line with a value > 0 records the pending
\* segment and moves it back; no other line changes looking_for, and nothing
\* is recorded while looking for a header.
C17_StrictAlternation ==
    [][ (smPc = "scan" /\ nlines' = nlines + 1) =>
          /\ nlines = 0 => looking_for = "Segment"
          /\ IF looking_for = "Segment" /\ line'.kind = "seg"
             THEN looking_for' = "Rss" /\ recorded' = recorded
             ELSE IF looking_for = "Rss" /\ line'.kind = "rss" /\ line'.kb > 0
             THEN looking_for' = "Segment" /\ Len(recorded') = Len(recorded) + 1
             ELSE looking_for' = looking_for /\ recorded' = recorded ]_vars

\* C17, amended: as claimed, but an Rss line read while looking for Rss moves
\* the scan back to looking for a header whatever its value; it records the
\* pending segment only when the value is > 0.
C17_AlternationOnEveryRss ==
    [][ (smPc = "scan" /\ nlines' = nlines + 1) =>
          /\ nlines = 0 => looking_for = "Segment"
          /\ IF looking_for = "Segment" /\ line'.kind = "seg"
             THEN looking_for' = "Rss" /\ recorded' = recorded
             ELSE IF looking_for = "Rss" /\ line'.kind = "rss"
             THEN /\ looking_for' = "Segment"
                  /\ IF line'.kb > 0
                     THEN /\ Len(recorded') = Len(recorded) + 1
                          /\ recorded'[Len(recorded')].name = curr_seg_name
                     ELSE recorded' = recorded
             ELSE looking_for' = looking_for /\ recorded' = recorded ]_vars

\* An Rss line of 0 kB was read while looking for Rss: nothing was recorded
\* and the scan looks for a header again.
C17_Witness ==
    /\ smPc = "scan"
    /\ line = RssLine(0)
    /\ looking_for = "Segment"
    /\ curr_seg_name # ""
    /\ recorded = << >>

\* ------------------------------------------------------------------ properties of get_jemalloc_stat
\* C15: every invocation calls je_mallctl("epoch") first and reads the
\* statistic after it; when the epoch call returns non-zero the result is
\* None and the statistic is not read; when the read returns non-zero the
\* result is None; a value is returned only when both calls of this
\* invocation returned 0, and it is the statistic as refreshed by this
\* invocation's epoch call.
C15_EpochFirstAndNoStaleValue ==
    /\ ctlLog \in {<< >>, <<"epoch">>, <<"epoch", value_name>>}
    /\ jePc = "read" => (ctlLog = <<"epoch">> /\ rvEpoch = 0)
    /\ jePc = "done" =>
          /\ rvEpoch # NotCalled
          /\ rvEpoch # 0 => (jeResult = None /\ ctlLog = <<"epoch">> /\ rvValue = NotCalled)
          /\ rvEpoch = 0 => (ctlLog = <<"epoch", value_name>> /\ rvValue # NotCalled)
          /\ rvValue # 0 => jeResult = None
          /\ (rvEpoch = 0 /\ rvValue = 0) =>
                /\ jeResult = Some(cachedStats[value_name])
                /\ cachedIn = invocations

\* The second invocation's epoch call failed after the statistic changed:
\* None is returned although an older value is cached.
C15_Witness ==
    /\ jePc = "done"
    /\ invocations = 2
    /\ cachedIn = 1
    /\ rvEpoch # 0
    /\ jeResult = None
    /\ cachedStats[value_name] # liveStats[value_name]

\* ------------------------------------------------------------------ properties of size_of_excluding_self
\* The sum of the elements' size_of_excluding_self.
RECURSIVE SumElems(_)
SumElems(e) == IF e = << >> THEN 0 ELSE StringSizeOf(e[1]) + SumElems(Tail(e))

\* C16: the size of a Vec is the allocator's usable size of its buffer plus
\* the sum of its elements' size_of_excluding_self; for a Vec whose buffer
\* pointer is EMPTY it is 0 and the allocator is not asked.
C16_VecIsBufferPlusElements ==
    (measured = "Vec" /\ szPc = "done") =>
        /\ vec.ptr # EMPTY =>
              /\ szResult = usable[vec.ptr] + SumElems(vec.elems)
              /\ queried[1] = vec.ptr
        /\ vec.ptr = EMPTY => (szResult = 0 /\ queried = << >>)

\* A Vec with an allocated buffer and two elements, one with a buffer and one
\* without, was measured.
C16_Witness ==
    /\ measured = "Vec"
    /\ szPc = "done"
    /\ vec.ptr # EMPTY
    /\ Len(vec.elems) = 2
    /\ vec.elems[1] # EMPTY
    /\ vec.elems[2] = EMPTY
    /\ usable[vec.ptr] # usable[vec.elems[1]]
    /\ szResult = usable[vec.ptr] + usable[vec.elems[1]]

\* The nodes of the list from link b on, by following the next links.
RECURSIVE Chain(_)
Chain(b) == IF b = NoLink THEN << >> ELSE <<b>> \o Chain(nodes[b].next)

\* The sum over the nodes v of the node's own block and its value.
RECURSIVE NodeSum(_)
NodeSum(v) ==
    IF v = << >> THEN 0
    ELSE usable[v[1]] + StringSizeOf(nodes[v[1]].value) + NodeSum(Tail(v))

\* The loop has visited the first nodes of the list, in order and once each,
\* and has added up exactly those; it returns the sum over all.
ListWalk ==
    measured = "DList" =>
        LET chain == Chain(list_head)
            k == Len(visited)
        IN  /\ k <= Len(chain)
            /\ visited = SubSeq(chain, 1, k)
            /\ \A i, j \in 1..k : i # j => visited[i] # visited[j]
            /\ szPc = "list_loop" =>
                  /\ curr = IF k < Len(chain) THEN chain[k + 1] ELSE NoLink
                  /\ size = NodeSum(visited)
            /\ szPc = "done" =>
                  /\ visited = chain
                  /\ szResult = NodeSum(chain)
                  /\ list_head = NoLink => szResult = 0

\* C19: the measurement of a list walks the nodes from the head along the
\* next links, one loop iteration per node, visits each node once, ends at
\* the end of the list and returns the sum over the nodes of the node's
\* block and its value's size_of_excluding_self (0 for the empty list); the
\* list is not modified.
C19_ListWalkSumsEveryNodeOnce ==
    /\ []ListWalk
    /\ (szPc = "list_begin") ~> (szPc = "done")
    /\ [][list_head' = list_head /\ nodes' = nodes /\ usable' = usable]_vars

\* A list of two nodes, whose values have buffers, was measured.
C19_Witness ==
    /\ measured = "DList"
    /\ szPc = "done"
    /\ Len(visited) = 2
    /\ nodes[visited[1]].value # EMPTY
    /\ szResult = usable[visited[1]] + usable[nodes[visited[1]].value]
                  + usable[visited[2]] + StringSizeOf(nodes[visited[2]].value)

\* ------------------------------------------------------------------ properties of a reporter that never replies
\* C18: a Print cycle has no timeout: when a reporter never replies (its
\* collect_reports never returns, or port.recv() never returns), the actor
\* thread stays at that reporter for ever; no further reporter is called,
\* nothing more is printed and no message behind that Print, Exit included,
\* is handled.
C18_HungReporterStallsForever ==
    [][ /\ (calls' # calls /\ calls'[Len(calls')].outcome.hang # "no") =>
              /\ actor = "printing"
              /\ Stalled'
              /\ calls'[Len(calls')].name \in DOMAIN reporters
        /\ (~Stalled /\ Stalled') =>
              (calls' # calls /\ calls'[Len(calls')].outcome.hang # "no")
        /\ Stalled =>
              /\ actor' = actor
              /\ handled' = handled
              /\ calls' = calls
              /\ out' = out
              /\ reporters' = reporters
              /\ cycle' = cycle
              /\ toVisit' = toVisit
              /\ Len(mailbox') >= Len(mailbox) ]_vars

\* The cycle is stalled at a reporter whose recv never returns, with an Exit
\* queued behind the Print and without its blank line.
C18_Witness ==
    /\ actor = "blocked_recv"
    /\ \E i \in 1..Len(mailbox) : mailbox[i].kind = "Exit"
    /\ ~ExitHandled(handled)
    /\ calls[Len(calls)].outcome.hang = "recv"
    /\ out[Len(out)].kind # "blank"

\* ------------------------------------------------------------------ properties of create and the timer
\* C20: no Print is handled before the Register of the system reporter that
\* create sends, so that every Print cycle that ran to its end, of a holder
\* or of the timer, called the "system" reporter unless an
\* Unregister("system") was handled before it.
C20_EveryCycleVisitsSystem ==
    /\ \A i \in 1..Len(handled) :
          handled[i].kind = "Print" =>
              \E j \in 1..(i - 1) :
                  handled[j] = RegisterMsg(j, "create", SystemName, TRUE)
    /\ \A c \in 1..cycle :
          (/\ CycleDone(c)
           /\ \A i \in 1..Len(BeforeCycle(c)) :
                 ~(BeforeCycle(c)[i].kind = "Unregister"
                   /\ BeforeCycle(c)[i].name = SystemName)) =>
              \E k \in CallsOf(c) : calls[k].name = SystemName

\* ------------------------------------------------------------------ properties of the closing of the mailbox
\* No Exit was sent: none is queued and none was handled.
NoExitSent ==
    /\ ~ExitHandled(handled)
    /\ \A i \in 1..Len(mailbox) : mailbox[i].kind # "Exit"

TimerKeepsMailboxOpen ==
    [][ /\ (timer = "sleeping" /\ timer' # "sleeping") => actor = "terminated"
        /\ (timer = "sleeping" /\ actor = "recv" /\ actor' = "exiting") =>
              (Len(handled') = Len(handled) + 1) ]_vars

\* The half of C21 without a timer thread.
C21_NoTimerHalf ==
    (period = "none" /\ HandleReturned(createPc) /\ ~handles /\ NoExitSent)
        ~> (actor = "terminated" \/ Stalled)

====
